---- MODULE Spec2Model ----
(***************************************************************************)
(* Model of downloader.py (WebPagesDownloadToZip): run() validates the     *)
(* configuration, resolves the data directory and the target ZIP path,     *)
(* opens the ZIP and then, per URL in order, optionally sleeps, issues an  *)
(* HTTP GET and stores the body of an "ok" response under the basename of  *)
(* the URL path.  Strings (URLs, paths, names) are sequences of            *)
(* one-character strings so that parsing is computed, not assumed.         *)
(***************************************************************************)
EXTENDS Integers, Sequences, FiniteSets, TLC

(* ----------------------------- bounds ---------------------------------- *)
\* longest configured URL list explored by Spec
MaxUrls == 2
\* longest path (after its leading "/") of the URLs explored by SpecNamer
MaxPathLen == 3

(* ------------------------ program constants ---------------------------- *)
\* randint(35, 621)
SLEEP_MIN == 35
SLEEP_MAX == 621

INDEX_HTML == <<"i", "n", "d", "e", "x", ".", "h", "t", "m", "l">>
\* __script_dir, the directory of downloader.py
ScriptDir == <<"/", "s">>
\* time.strftime("%Y-%m-%d_%H%M%S") + ".zip"; "T" stands for the timestamp
NowZip == <<"T", ".", "z", "i", "p">>

(* ------------------------- string helpers ------------------------------ *)
\* the smallest element of a non-empty set of indices
Least(S) == CHOOSE k \in S : \A m \in S : k <= m

\* str.find(c, start): least index >= start holding c, 0 when there is none
\* (Python's -1; indices here are 1-based)
Find(s, c, start) ==
  LET hits == {k \in start..Len(s) : s[k] = c}
  IN IF hits = {} THEN 0 ELSE Least(hits)

\* str.rfind(c): greatest index holding c, 0 when there is none
RFind(s, c) ==
  LET hits == {k \in 1..Len(s) : s[k] = c}
  IN IF hits = {} THEN 0 ELSE CHOOSE k \in hits : \A m \in hits : k >= m

\* s[k:] of Python, for the 1-based index k
From(s, k) == SubSeq(s, k, Len(s))

(* --------------------------- urllib.parse ------------------------------ *)
Alpha == {"h", "t", "p", "s", "a", "b"}
scheme_chars == Alpha
HTTPS == <<"h", "t", "t", "p", "s">>
HTTP == <<"h", "t", "t", "p">>
\* the schemes of urllib.parse.uses_params that occur here
uses_params == {<<>>, HTTP, HTTPS}

\* str.split(c, 1): the text before and after the first c
split1(s, c) ==
  LET i == Find(s, c, 1)
  IN IF i > 0 THEN <<SubSeq(s, 1, i - 1), From(s, i + 1)>> ELSE <<s, <<>>>>

\* urlsplit, the scheme: the text before the first ":" when it is a letter
\* followed by scheme characters
split_scheme(url) ==
  LET i == Find(url, ":", 1)
  IN IF /\ i > 1
        /\ url[1] \in Alpha
        /\ \A k \in 1..(i - 1) : url[k] \in scheme_chars
     THEN <<SubSeq(url, 1, i - 1), From(url, i + 1)>>
     ELSE <<<<>>, url>>

\* urllib.parse._splitnetloc(url, 2): the netloc ends at the first of "/?#"
splitnetloc(url) ==
  LET delims == {k \in 3..Len(url) : url[k] \in {"/", "?", "#"}}
      delim == IF delims = {} THEN Len(url) + 1 ELSE Least(delims)
  IN <<SubSeq(url, 3, delim - 1), From(url, delim)>>

\* urlsplit, the netloc: present when the rest starts with "//"
split_netloc(url) ==
  IF Len(url) >= 2 /\ url[1] = "/" /\ url[2] = "/"
  THEN splitnetloc(url)
  ELSE <<<<>>, url>>

\* urllib.parse.urlsplit: scheme, then "//netloc", then "#fragment", then "?query"
urlsplit(url) ==
  LET a == split_scheme(url)
      b == split_netloc(a[2])
      c == split1(b[2], "#")
      d == split1(c[1], "?")
  IN [scheme |-> a[1], netloc |-> b[1], path |-> d[1],
      query |-> d[2], fragment |-> c[2]]

\* urllib.parse._splitparams: the ";params" of the last path segment
splitparams(url) ==
  LET sl == RFind(url, "/")
      i == IF sl > 0 THEN Find(url, ";", sl) ELSE Find(url, ";", 1)
  IN IF i = 0 THEN <<url, <<>>>>
     ELSE <<SubSeq(url, 1, i - 1), From(url, i + 1)>>

\* urllib.parse.urlparse: urlsplit, then the params split off the path
urlparse(url) ==
  LET s == urlsplit(url)
      sp == IF s.scheme \in uses_params /\ Find(s.path, ";", 1) > 0
            THEN splitparams(s.path)
            ELSE <<s.path, <<>>>>
  IN [scheme |-> s.scheme, netloc |-> s.netloc, path |-> sp[1],
      params |-> sp[2], query |-> s.query, fragment |-> s.fragment]

\* os.path.basename (posixpath): everything after the last "/"
basename_of(p) == From(p, RFind(p, "/") + 1)

\* EntryName, were the basename taken of the URL and not of its path
EntryName_of_url(u) ==
  LET b == basename_of(u)
  IN IF b = <<>> THEN INDEX_HTML ELSE b

\* the entry name of run(): basename of the URL path, "index.html" when empty
EntryName(u) ==
  LET b == basename_of(urlparse(u).path)
  IN IF b = <<>> THEN INDEX_HTML ELSE b

(* ------------------------------ pathlib -------------------------------- *)
\* Path.is_absolute
is_absolute(p) == Len(p) > 0 /\ p[1] = "/"

\* Path.joinpath: an absolute right operand replaces the left one, Path("")
\* is "." and adds nothing
joinpath(a, b) ==
  IF is_absolute(b) THEN b
  ELSE IF b = <<>> THEN a
  ELSE a \o <<"/">> \o b

(* -------------------------- requests.Response -------------------------- *)
\* ok, were it to accept the 2xx statuses only
ok_2xx(resp) == 200 <= resp.status_code /\ resp.status_code < 300

\* Response.ok: raise_for_status() does not raise, i.e. the status is not 4xx/5xx
ok(resp) == ~(400 <= resp.status_code /\ resp.status_code < 600)

\* Python truthiness of a str, dict or list: not empty
Truthy(v) == Len(v) > 0

(* ------------------------------- state --------------------------------- *)
VARIABLES
  config,             \* the parsed JSON document: a record that may lack keys
  no_sleep,           \* run()'s flag, --no-sleep
  dirs,               \* file system: the existing directories
  disk,               \* file system: path |-> content of the existing files
  pc,                 \* position of the single thread in main()/run()
  raised,             \* the exception propagating, "none" when there is none
  datadir,            \* local of run()
  zipfilename,        \* local of run()
  urls,               \* local of run()
  idx,                \* position of the for-loop iterator in urls
  url,                \* loop variable
  sleep_time_seconds, \* local, live from randint() until sleep() returns
  r,                  \* the response of the last GET
  basename,           \* local, the entry name of the last write
  zf_open,            \* the ZipFile handle is open
  filelist,           \* ZipFile.filelist: the entries in the order written
  trace,              \* calls made, in order: sleep, get, writestr, error (log)
  exitcode            \* exit status of the process, -1 while it runs

vars == <<config, no_sleep, dirs, disk, pc, raised, datadir, zipfilename, urls,
          idx, url, sleep_time_seconds, r, basename, zf_open, filelist, trace,
          exitcode>>

\* what setup (lines 109-111) leaves alone
loopVars == <<urls, idx, url, sleep_time_seconds, r, basename, zf_open,
              filelist, trace>>

(* --------------------------- initial states ---------------------------- *)
\* "datadir" values: empty, relative, absolute
DatadirValues == {<<>>, <<"d">>, <<"/", "d">>}
\* "headers" values: {} and {"U": "x"}
HeaderValues == {<<>>, <<<<"U", "x">>>>}
\* the URLs of the runs explored by Spec: two with the same basename, and a root
RunUrls == {HTTPS \o <<":", "/", "/", "h", "/", "a">>,
            HTTPS \o <<":", "/", "/", "h", "/", "b", "/", "a">>,
            HTTPS \o <<":", "/", "/", "h">>}
\* status codes a server answers with
Statuses == {200, 304, 404, 503}

SeqsUpTo(S, n) == UNION {[1..k -> S] : k \in 0..n}

\* a key that is absent, or present with one of vals
Opt(k, vals) == {<<>>} \cup {(k :> v) : v \in vals}

Configs(urlLists) ==
  {d @@ h @@ u : d \in Opt("datadir", DatadirValues),
                 h \in Opt("headers", HeaderValues),
                 u \in Opt("urls", urlLists)}

\* the directories and the ZIP paths a configuration can resolve to
DataDirs == {joinpath(ScriptDir, d) : d \in DatadirValues \ {<<>>}}

InitWith(urlLists) ==
  /\ config \in Configs(urlLists)
  /\ no_sleep \in BOOLEAN
  /\ dirs \in {{ScriptDir} \cup D : D \in SUBSET DataDirs}
  /\ \E F \in SUBSET (dirs \ {ScriptDir}) :
       disk = [p \in {joinpath(d, NowZip) : d \in F} |-> "old"]
  /\ pc = "check_config"
  /\ raised = "none"
  /\ datadir = <<>>
  /\ zipfilename = <<>>
  /\ urls = <<>>
  /\ idx = 0
  /\ url = <<>>
  /\ sleep_time_seconds = 0
  /\ r = [status_code |-> 0]
  /\ basename = <<>>
  /\ zf_open = FALSE
  /\ filelist = <<>>
  /\ trace = <<>>
  /\ exitcode = -1

Init == InitWith(SeqsUpTo(RunUrls, MaxUrls))

(* ------------------------------- setup --------------------------------- *)
\* __check_config: the exception its four statements raise, "none" when they
\* all pass.  config[k] raises KeyError for an absent key before the assert
\* can look at the value.
check_config(c) ==
  IF "datadir" \notin DOMAIN c THEN "KeyError"
  ELSE IF ~Truthy(c.datadir) THEN "AssertionError"
  ELSE IF "headers" \notin DOMAIN c THEN "KeyError"
  ELSE IF ~Truthy(c.headers) THEN "AssertionError"
  ELSE IF "urls" \notin DOMAIN c THEN "KeyError"
  ELSE IF ~Truthy(c.urls) THEN "AssertionError"
  ELSE IF ~(Len(c.urls) > 0) THEN "AssertionError"
  ELSE "none"

\* run(), line 109
CheckConfig ==
  /\ pc = "check_config"
  /\ LET e == check_config(config)
     IN IF e = "none"
        THEN /\ pc' = "get_check_datadir"
             /\ raised' = raised
        ELSE /\ pc' = "exit"
             /\ raised' = e
  /\ UNCHANGED <<config, no_sleep, dirs, disk, datadir, zipfilename, exitcode>>
  /\ UNCHANGED loopVars

\* __get_check_datadir: the directory it resolves config["datadir"] to
get_check_datadir(c) ==
  IF is_absolute(c.datadir) THEN c.datadir ELSE joinpath(ScriptDir, c.datadir)

\* run(), line 110
GetCheckDatadir ==
  /\ pc = "get_check_datadir"
  /\ LET d == get_check_datadir(config)
     IN IF d \in dirs
        THEN /\ datadir' = d
             /\ pc' = "get_check_zipfilename"
             /\ raised' = raised
        ELSE /\ datadir' = datadir
             /\ pc' = "exit"
             /\ raised' = "AssertionError"
  /\ UNCHANGED <<config, no_sleep, dirs, disk, zipfilename, exitcode>>
  /\ UNCHANGED loopVars

\* GetCheckZipfilename, were the existence of the target not asserted
GetCheckZipfilename_unchecked ==
  /\ pc = "get_check_zipfilename"
  /\ zipfilename' = joinpath(datadir, NowZip)
  /\ pc' = "open"
  /\ UNCHANGED <<config, no_sleep, dirs, disk, raised, datadir, exitcode>>
  /\ UNCHANGED loopVars

\* run(), line 111: __get_check_zipfilename
GetCheckZipfilename ==
  /\ pc = "get_check_zipfilename"
  /\ LET filepath == joinpath(datadir, NowZip)
     IN IF filepath \notin DOMAIN disk
        THEN /\ zipfilename' = filepath
             /\ pc' = "open"
             /\ raised' = raised
        ELSE /\ zipfilename' = zipfilename
             /\ pc' = "exit"
             /\ raised' = "AssertionError"
  /\ UNCHANGED <<config, no_sleep, dirs, disk, datadir, exitcode>>
  /\ UNCHANGED loopVars

\* run(), lines 113-116: ZipFile(zipfilename, "w") creates (or truncates) the
\* file and starts with no entries
OpenZip ==
  /\ pc = "open"
  /\ urls' = config.urls
  /\ zf_open' = TRUE
  /\ disk' = (zipfilename :> "zip") @@ disk
  /\ filelist' = <<>>
  /\ pc' = "for"
  /\ UNCHANGED <<config, no_sleep, dirs, raised, datadir, zipfilename, idx, url,
                 sleep_time_seconds, r, basename, trace, exitcode>>

(* ----------------------------- the loop -------------------------------- *)
\* ForNext, were the sleep made between requests only, not before the first
ForNext_no_first_sleep ==
  /\ pc = "for"
  /\ IF idx < Len(urls)
     THEN /\ idx' = idx + 1
          /\ url' = urls[idx + 1]
          /\ pc' = IF no_sleep \/ idx = 0 THEN "get" ELSE "sleep"
     ELSE /\ idx' = idx
          /\ url' = url
          /\ pc' = "exit_with"
  /\ UNCHANGED <<config, no_sleep, dirs, disk, raised, datadir, zipfilename,
                 urls, sleep_time_seconds, r, basename, zf_open, filelist,
                 trace, exitcode>>

\* ForNext, were the list walked from its end
ForNext_reversed ==
  /\ pc = "for"
  /\ IF idx < Len(urls)
     THEN /\ idx' = idx + 1
          /\ url' = urls[Len(urls) - idx]
          /\ pc' = IF no_sleep THEN "get" ELSE "sleep"
     ELSE /\ idx' = idx
          /\ url' = url
          /\ pc' = "exit_with"
  /\ UNCHANGED <<config, no_sleep, dirs, disk, raised, datadir, zipfilename,
                 urls, sleep_time_seconds, r, basename, zf_open, filelist,
                 trace, exitcode>>

\* line 117: the for statement takes the next element or leaves the loop
ForNext ==
  /\ pc = "for"
  /\ IF idx < Len(urls)
     THEN /\ idx' = idx + 1
          /\ url' = urls[idx + 1]
          /\ pc' = IF no_sleep THEN "get" ELSE "sleep"
     ELSE /\ idx' = idx
          /\ url' = url
          /\ pc' = "exit_with"
  /\ UNCHANGED <<config, no_sleep, dirs, disk, raised, datadir, zipfilename,
                 urls, sleep_time_seconds, r, basename, zf_open, filelist,
                 trace, exitcode>>

\* lines 119-123: randint(35, 621), then sleep() returns
Sleep ==
  /\ pc = "sleep"
  /\ \E t \in SLEEP_MIN..SLEEP_MAX : sleep_time_seconds' = t
  /\ trace' = Append(trace, [ev |-> "sleep", i |-> idx, url |-> url])
  /\ pc' = "get"
  /\ UNCHANGED <<config, no_sleep, dirs, disk, raised, datadir, zipfilename,
                 urls, idx, url, r, basename, zf_open, filelist, exitcode>>

\* line 123: sleep() is interrupted (KeyboardInterrupt)
SleepInterrupted ==
  /\ pc = "sleep"
  /\ raised' = "KeyboardInterrupt"
  /\ pc' = "exit_with"
  /\ UNCHANGED <<config, no_sleep, dirs, disk, datadir, zipfilename, urls, idx,
                 url, sleep_time_seconds, r, basename, zf_open, filelist,
                 trace, exitcode>>

\* lines 126-127: requests.get(url, headers=...) sends the request; the
\* sleep duration is not read again
HttpGet ==
  /\ pc = "get"
  /\ trace' = Append(trace, [ev |-> "get", i |-> idx, url |-> url])
  /\ sleep_time_seconds' = 0
  /\ pc' = "requesting"
  /\ UNCHANGED <<config, no_sleep, dirs, disk, raised, datadir, zipfilename,
                 urls, idx, url, r, basename, zf_open, filelist, exitcode>>

\* line 127: requests.get returns a response, of any status
GetReturns ==
  /\ pc = "requesting"
  /\ \E s \in Statuses : r' = [status_code |-> s]
  /\ pc' = "response"
  /\ UNCHANGED <<config, no_sleep, dirs, disk, raised, datadir, zipfilename,
                 urls, idx, url, sleep_time_seconds, basename, zf_open,
                 filelist, trace, exitcode>>

\* GetRaises, were the archive not opened in a with statement
GetRaises_unclosed ==
  /\ pc = "requesting"
  /\ raised' = "ConnectionError"
  /\ pc' = "exit"
  /\ UNCHANGED <<config, no_sleep, dirs, disk, datadir, zipfilename, urls, idx,
                 url, sleep_time_seconds, r, basename, zf_open, filelist,
                 trace, exitcode>>

\* line 127: requests.get raises (ConnectionError, Timeout, ...); nothing in
\* run() catches it
GetRaises ==
  /\ pc = "requesting"
  /\ raised' = "ConnectionError"
  /\ pc' = "exit_with"
  /\ UNCHANGED <<config, no_sleep, dirs, disk, datadir, zipfilename, urls, idx,
                 url, sleep_time_seconds, r, basename, zf_open, filelist,
                 trace, exitcode>>

\* WriteStr, were an entry of the same name replaced by the new one
WriteStr_replacing ==
  /\ pc = "response"
  /\ ok(r)
  /\ basename' = EntryName(url)
  /\ filelist' = Append(SelectSeq(filelist, LAMBDA e : e.filename # EntryName(url)),
                        [filename |-> EntryName(url), body |-> idx])
  /\ trace' = Append(trace, [ev |-> "writestr", i |-> idx, url |-> url])
  /\ pc' = "for"
  /\ UNCHANGED <<config, no_sleep, dirs, disk, raised, datadir, zipfilename,
                 urls, idx, url, sleep_time_seconds, r, zf_open, exitcode>>

\* lines 130-141: an ok response is stored; ZipFile.writestr appends to
\* filelist whether or not the name is already there.  body names the fetch
\* the text came from.
WriteStr ==
  /\ pc = "response"
  /\ ok(r)
  /\ basename' = EntryName(url)
  /\ filelist' = Append(filelist, [filename |-> EntryName(url), body |-> idx])
  /\ trace' = Append(trace, [ev |-> "writestr", i |-> idx, url |-> url])
  /\ pc' = "for"
  /\ UNCHANGED <<config, no_sleep, dirs, disk, raised, datadir, zipfilename,
                 urls, idx, url, sleep_time_seconds, r, zf_open, exitcode>>

\* line 141: writestr raises (disk full, ...); no entry is added
WriteStrRaises ==
  /\ pc = "response"
  /\ ok(r)
  /\ basename' = EntryName(url)
  /\ raised' = "OSError"
  /\ pc' = "exit_with"
  /\ UNCHANGED <<config, no_sleep, dirs, disk, datadir, zipfilename, urls, idx,
                 url, sleep_time_seconds, r, zf_open, filelist, trace, exitcode>>

\* lines 142-143: a response that is not ok is logged
LogError ==
  /\ pc = "response"
  /\ ~ok(r)
  /\ trace' = Append(trace, [ev |-> "error", i |-> idx, url |-> url])
  /\ pc' = "for"
  /\ UNCHANGED <<config, no_sleep, dirs, disk, raised, datadir, zipfilename,
                 urls, idx, url, sleep_time_seconds, r, basename, zf_open,
                 filelist, exitcode>>

\* ExitWith, were the entries dropped when an exception leaves the block
ExitWith_discarding ==
  /\ pc = "exit_with"
  /\ zf_open' = FALSE
  /\ filelist' = IF raised = "none" THEN filelist ELSE <<>>
  /\ pc' = "exit"
  /\ UNCHANGED <<config, no_sleep, dirs, disk, raised, datadir, zipfilename,
                 urls, idx, url, sleep_time_seconds, r, basename, trace,
                 exitcode>>

\* line 116: ZipFile.__exit__ closes the archive, after the loop and when an
\* exception leaves the block
ExitWith ==
  /\ pc = "exit_with"
  /\ zf_open' = FALSE
  /\ pc' = "exit"
  /\ UNCHANGED <<config, no_sleep, dirs, disk, raised, datadir, zipfilename,
                 urls, idx, url, sleep_time_seconds, r, basename, filelist,
                 trace, exitcode>>

\* lines 173, 190: sys.exit(main()); main() returns None, an uncaught
\* exception ends the interpreter with status 1
SysExit ==
  /\ pc = "exit"
  /\ exitcode' = IF raised = "none" THEN 0 ELSE 1
  /\ pc' = "done"
  /\ UNCHANGED <<config, no_sleep, dirs, disk, raised, datadir, zipfilename,
                 urls, idx, url, sleep_time_seconds, r, basename, zf_open,
                 filelist, trace>>

Next ==
  \/ CheckConfig
  \/ GetCheckDatadir
  \/ GetCheckZipfilename
  \/ OpenZip
  \/ ForNext
  \/ Sleep
  \/ SleepInterrupted
  \/ HttpGet
  \/ GetReturns
  \/ GetRaises
  \/ WriteStr
  \/ WriteStrRaises
  \/ LogError
  \/ ExitWith
  \/ SysExit

Spec == Init /\ [][Next]_vars

(* --------------------- the naming specification ------------------------ *)
\* URLs written as scheme://netloc path [;params] [?query] [#fragment]
PathChars == {"/", "a", "b"}
NamerPaths == {<<>>} \cup {<<"/">> \o p : p \in SeqsUpTo(PathChars, MaxPathLen)}
NamerComponents ==
  [path : NamerPaths,
   params : {<<>>, <<"p">>},
   query : {<<>>, <<"/", "b">>},
   fragment : {<<>>, <<"/", "a">>}]

Compose(c) ==
  HTTPS \o <<":", "/", "/", "h">> \o c.path
    \o (IF c.params = <<>> THEN <<>> ELSE <<";">> \o c.params)
    \o (IF c.query = <<>> THEN <<>> ELSE <<"?">> \o c.query)
    \o (IF c.fragment = <<>> THEN <<>> ELSE <<"#">> \o c.fragment)

NamerUrls == {Compose(c) : c \in NamerComponents}

\* runs of a valid one-URL configuration, for every URL of NamerUrls
InitNamer ==
  /\ InitWith({<<u>> : u \in NamerUrls})
  /\ check_config(config) = "none"
  /\ dirs = {ScriptDir} \cup DataDirs
  /\ disk = <<>>

SpecNamer == InitNamer /\ [][Next]_vars

(* ---------------------- vocabulary of the claims ----------------------- *)
\* positions of the trace holding an event of kind e
Events(e) == {k \in 1..Len(trace) : trace[k].ev = e}
\* positions of the trace holding an event of kind e for the URL at position n
EventsOf(e, n) == {k \in Events(e) : trace[k].i = n}
\* positions of the archive's entries written from the fetch of URL n
EntriesOf(n) == {k \in 1..Len(filelist) : filelist[k].body = n}
\* positions of the archive's entries stored under name
EntriesNamed(name) == {k \in 1..Len(filelist) : filelist[k].filename = name}
\* the ZIP was opened: everything before the with block passed
SetupSucceeded == zipfilename # <<>> /\ zipfilename \in DOMAIN disk
\* the exceptions of setup, and those run() lets out of the loop that are
\* not failures of a fetch
SetupErrors == {"KeyError", "AssertionError"}
\* the current URL has been dealt with and nothing was raised
Handled == pc \in {"for", "exit_with", "exit", "done"} /\ raised = "none" /\ idx >= 1

(* ------------------------------- C1 ------------------------------------ *)
\* C1: once setup has succeeded, a run in which nothing but fetches failed
\* (a response that is not 2xx, or the GET raising) ends normally: every
\* configured URL was requested and the exit code is zero.
C1_FetchFailureNeverFatal ==
  (pc = "done" /\ SetupSucceeded /\ raised \notin {"OSError", "KeyboardInterrupt"})
    => /\ exitcode = 0
       /\ \A n \in 1..Len(config.urls) : EventsOf("get", n) # {}

(* ------------------------------- C2 ------------------------------------ *)
\* C2 as stated: once a URL has been dealt with, the archive holds an entry
\* for it if and only if its GET returned a status in 200..299.
C2_EntryIff2xx ==
  Handled => (EntriesOf(idx) # {} <=> r.status_code \in 200..299)

\* C2 as amended: once a URL has been dealt with, the archive holds exactly
\* one entry for it, under its entry name, if its GET returned a status
\* outside 400..599 (so also for a 3xx such as 304), and none otherwise; a
\* GET that raised leaves no entry; no entry exists for a URL not yet reached.
C2_EntryIffOk ==
  /\ Handled =>
       IF r.status_code \in 400..599
       THEN EntriesOf(idx) = {}
       ELSE /\ Cardinality(EntriesOf(idx)) = 1
            /\ \A k \in EntriesOf(idx) : filelist[k].filename = EntryName(urls[idx])
  /\ raised = "ConnectionError" => EntriesOf(idx) = {}
  /\ \A k \in 1..Len(filelist) : filelist[k].body \in 1..idx

\* C2 witness: a run has ended whose last response, a 304, was stored
C2_Witness ==
  /\ pc = "done"
  /\ raised = "none"
  /\ r.status_code = 304
  /\ EntriesOf(idx) # {}

(* ------------------------------- C3 ------------------------------------ *)
\* a key of the configuration is absent or its value is empty
InvalidConfig(c) ==
  \E k \in {"datadir", "headers", "urls"} : k \notin DOMAIN c \/ c[k] = <<>>

\* C3: a configuration lacking datadir, headers or urls, or holding an empty
\* value for one, makes run() fail with the invalid-configuration error
\* (the assertion "invalid configuration!"), the same for an absent key as
\* for an empty value, before the data directory is resolved, the archive
\* opened or anything requested.
C3_InvalidConfigRejected ==
  (InvalidConfig(config) /\ pc # "check_config")
    => /\ raised = "AssertionError"
       /\ pc \in {"exit", "done"}
       /\ datadir = <<>>
       /\ zipfilename = <<>>
       /\ ~zf_open
       /\ trace = <<>>

(* ------------------------------- C4 ------------------------------------ *)
\* the configuration passes __check_config, and either the directory it
\* resolves to does not exist or the ZIP path in it is taken by an older file
EnvironmentError ==
  /\ check_config(config) = "none"
  /\ LET d == get_check_datadir(config)
         target == joinpath(d, NowZip)
     IN \/ d \notin dirs
        \/ target \in DOMAIN disk /\ disk[target] = "old"

\* C4: when the resolved data directory does not exist, or the target ZIP
\* path already exists, run() fails before any network activity: nothing is
\* slept for or requested, no archive is opened, the run ends with a non-zero
\* exit code, and no file that was there before the run is ever replaced.
C4_EnvironmentErrorBeforeNetwork ==
  /\ [](EnvironmentError =>
          /\ trace = <<>>
          /\ ~zf_open
          /\ pc \notin {"open", "for", "sleep", "get", "requesting", "response",
                        "exit_with"}
          /\ (pc = "done" => exitcode = 1 /\ raised = "AssertionError"))
  /\ [][\A f \in DOMAIN disk :
          disk[f] = "old" => f \in DOMAIN disk' /\ disk'[f] = "old"]_vars

\* C4 witness: the run has ended on a ZIP path that was taken
C4_Witness ==
  /\ pc = "done"
  /\ check_config(config) = "none"
  /\ get_check_datadir(config) \in dirs
  /\ joinpath(get_check_datadir(config), NowZip) \in DOMAIN disk
  /\ disk[joinpath(get_check_datadir(config), NowZip)] = "old"
  /\ exitcode = 1

(* ------------------------------- C5 ------------------------------------ *)
\* C5: once the archive has been opened, it is closed on every way out of
\* the loop: no run that has left the with block, normally or by an
\* exception of the sleep, the GET, the naming or the write, has the archive
\* open, and the archive is open all the time the loop runs.
C5_ArchiveClosedOnEveryExit ==
  /\ pc \in {"exit", "done"} => ~zf_open
  /\ pc \in {"for", "sleep", "get", "requesting", "response", "exit_with"} => zf_open

\* C5 witness: a run that a raising GET ended has closed its archive
C5_Witness ==
  /\ pc = "done"
  /\ raised = "ConnectionError"
  /\ SetupSucceeded
  /\ ~zf_open

(* ------------------------------- C6 ------------------------------------ *)
\* ZipFile.getinfo(name): the entry NameToInfo keeps for a name, the last
\* one written under it
getinfo(name) ==
  filelist[CHOOSE k \in EntriesNamed(name) : \A m \in EntriesNamed(name) : m <= k]

\* C6 as stated: the finished archive has exactly one entry under each name,
\* so as many entries as there are distinct entry names among the stored URLs.
C6_LastWriteWins ==
  pc = "done" =>
    \A k, m \in 1..Len(filelist) :
      filelist[k].filename = filelist[m].filename => k = m

\* C6 as amended: a later write under a name already in the archive does not
\* replace the earlier entry: the archive keeps one entry per stored fetch,
\* in fetch order (N entries for N stored URLs, whatever their names), and
\* looking a name up yields the entry of the last stored fetch with that name.
C6_DuplicatesKept ==
  /\ Len(filelist) = Cardinality(Events("writestr"))
  /\ \A n \in 1..idx : Cardinality(EntriesOf(n)) = Cardinality(EventsOf("writestr", n))
  /\ \A k, m \in 1..Len(filelist) : k < m => filelist[k].body < filelist[m].body
  /\ \A k \in 1..Len(filelist) :
       /\ filelist[k].filename = EntryName(urls[filelist[k].body])
       /\ getinfo(filelist[k].filename).body >= filelist[k].body

\* C6 witness: a finished archive with two entries of one name
C6_Witness ==
  /\ pc = "done"
  /\ Len(filelist) = 2
  /\ filelist[1].filename = filelist[2].filename
  /\ urls[1] # urls[2]
  /\ getinfo(filelist[1].filename).body = 2

(* ------------------------------- C7 ------------------------------------ *)
\* C7: unless the delay is disabled, every GET, the first included, comes
\* right after exactly one sleep made for the same URL, of 35 to 621 seconds,
\* whatever the earlier responses were; with the delay disabled no sleep
\* happens at all.
C7_SleepBeforeEveryGet ==
  /\ ~no_sleep =>
       /\ \A k \in Events("get") :
            /\ k > 1
            /\ trace[k - 1].ev = "sleep"
            /\ trace[k - 1].i = trace[k].i
            /\ Cardinality(EventsOf("sleep", trace[k].i)) = 1
       /\ pc \in {"get", "requesting"} => EventsOf("sleep", idx) # {}
       /\ pc = "get" => sleep_time_seconds \in 35..621
  /\ no_sleep => Events("sleep") = {} /\ sleep_time_seconds = 0
  /\ sleep_time_seconds # 0 => sleep_time_seconds \in 35..621

\* C7 witness: the second GET is about to go out after the longest sleep,
\* the first response having been an error
C7_Witness ==
  /\ ~no_sleep
  /\ pc = "get"
  /\ idx = 2
  /\ sleep_time_seconds = 621
  /\ r.status_code = 503
  /\ Cardinality(Events("sleep")) = 2

(* ------------------------------- C8 ------------------------------------ *)
\* the suffixes of a path that hold no "/"
SlashFree(p) == \A k \in 1..Len(p) : p[k] # "/"
\* the last segment of a path: its longest suffix holding no "/"
LastSegment(p) ==
  LET tails == {t \in {From(p, k) : k \in 1..(Len(p) + 1)} : SlashFree(t)}
  IN CHOOSE t \in tails : \A o \in tails : Len(o) <= Len(t)

\* C8: the entry name computed for a URL is decided by the URL's path
\* component alone, whatever its params, query and fragment: "index.html"
\* when the path is empty or ends in "/", the last path segment unchanged
\* otherwise.
C8_EntryNameFromPath ==
  basename # <<>> =>
    \A c \in NamerComponents :
      Compose(c) = url =>
        basename = IF c.path = <<>> \/ c.path[Len(c.path)] = "/"
                   THEN INDEX_HTML
                   ELSE LastSegment(c.path)

\* C8 witness: the name of https://h/a/b?/b#/a has been computed as "b"
C8_Witness ==
  /\ url = Compose([path |-> <<"/", "a", "/", "b">>, params |-> <<>>,
                    query |-> <<"/", "b">>, fragment |-> <<"/", "a">>])
  /\ basename = <<"b">>
  /\ Len(filelist) = 1

(* ------------------------------- C9 ------------------------------------ *)
\* the configured list, empty when the configuration has none
ConfiguredUrls == IF "urls" \in DOMAIN config THEN config.urls ELSE <<>>

\* C9: the URLs are handled one after the other in configured order: the
\* n-th GET is for the n-th configured URL (a URL listed twice is requested
\* twice), no position is requested a second time, the events of one URL are
\* an optional sleep, then the GET, then one outcome (write or error log),
\* and every event of a URL precedes every event of the next one.
C9_SequentialInOrder ==
  /\ \A k \in Events("get") :
       /\ trace[k].i \in 1..Len(ConfiguredUrls)
       /\ trace[k].url = ConfiguredUrls[trace[k].i]
       /\ Cardinality({m \in Events("get") : m <= k}) = trace[k].i
       /\ Cardinality(EventsOf("get", trace[k].i)) = 1
  /\ \A k, m \in 1..Len(trace) : k < m => trace[k].i <= trace[m].i
  /\ \A n \in 1..Len(ConfiguredUrls) :
       /\ Cardinality(EventsOf("sleep", n)) <= 1
       /\ Cardinality(EventsOf("writestr", n) \cup EventsOf("error", n)) <= 1
       /\ \A k \in EventsOf("sleep", n) : \A m \in EventsOf("get", n) : k < m
       /\ \A k \in EventsOf("writestr", n) \cup EventsOf("error", n) :
            \E m \in EventsOf("get", n) : m < k
  /\ pc = "requesting" =>
       /\ trace[Len(trace)].ev = "get"
       /\ trace[Len(trace)].i = idx
       /\ \A n \in 1..(idx - 1) :
            EventsOf("writestr", n) \cup EventsOf("error", n) # {}

\* C9 witness: a list of two different URLs has been worked off, the first
\* having failed
C9_Witness ==
  /\ pc = "done"
  /\ Len(ConfiguredUrls) = 2
  /\ ConfiguredUrls[1] # ConfiguredUrls[2]
  /\ Cardinality(Events("get")) = 2
  /\ EventsOf("error", 1) # {}
  /\ EventsOf("writestr", 2) # {}

(* ------------------------------- C10 ----------------------------------- *)
\* C10: the archive file exists at the target path from the moment setup has
\* succeeded, before the first sleep and the first GET; when an exception is
\* raised in the loop while URL i is handled, no later URL is slept for or
\* requested, and the archive ends closed, holding exactly the entries
\* written for the stored URLs before i; a run that stored nothing leaves an
\* empty archive on disk.
C10_ArchiveCreatedEarlyKeptOnError ==
  /\ (trace # <<>> \/ pc \in {"for", "sleep", "get", "requesting", "response"})
       => SetupSucceeded /\ disk[zipfilename] = "zip"
  /\ raised \notin (SetupErrors \cup {"none"}) =>
       /\ pc \in {"exit_with", "exit", "done"}
       /\ \A k \in 1..Len(trace) : trace[k].i <= idx
       /\ EventsOf("writestr", idx) = {}
       /\ pc = "done" =>
            /\ ~zf_open
            /\ zipfilename \in DOMAIN disk
            /\ \A n \in 1..Len(config.urls) :
                 Cardinality(EntriesOf(n)) =
                   IF n < idx /\ EventsOf("writestr", n) # {} THEN 1 ELSE 0
  /\ (pc = "done" /\ SetupSucceeded /\ Events("writestr") = {}) =>
       filelist = <<>> /\ disk[zipfilename] = "zip"

\* C10 witness: the second GET raised after the first URL was stored
C10_Witness ==
  /\ pc = "done"
  /\ raised = "ConnectionError"
  /\ idx = 2
  /\ Len(filelist) = 1
  /\ filelist[1].body = 1
  /\ ~zf_open

====
